---- MODULE Spec2Model ----
(***************************************************************************)
(* Webhook receiver: POST /webhook validates a JSON payload and stores it  *)
(* in a MongoDB collection that carries a unique index on request_id;      *)
(* GET /api/events reads the newest events, POST /api/clear empties the    *)
(* collection, GET /health pings the store.  Request handlers run on a     *)
(* pool of workers and share only the collection.                          *)
(*                                                                         *)
(* A JSON payload is a function whose DOMAIN is the set of keys present.   *)
(* A timestamp text is a pair <<hour, suffix>>: the wall-clock reading and *)
(* the zone designator that follows it ("" for none).  An instant is an    *)
(* integer number of hours, UTC, as the store keeps it.                    *)
(*                                                                         *)
(* Every call of the store (insert_one, find, delete_many, ping) either    *)
(* takes effect in one step or raises a connection failure and has no      *)
(* effect.  Payloads carry none of the optional fields action, from_branch,*)
(* to_branch and branch, which the document then holds as "".              *)
(***************************************************************************)
EXTENDS Integers, Sequences, FiniteSets, TLC

VARIABLES
    proc,        \* "booting", "running" or "crashed": the process importing database.py
    client,      \* db.client: "None" or "MongoClient"
    collection,  \* db.collection: "None" or "events"
    indexed,     \* the collection carries the unique index on request_id
    store,       \* the documents of the collection, in insertion order
    seq,         \* number of documents inserted so far (ObjectId / clock source)
    uuids,       \* number of uuid4 values generated so far
    known,       \* generated request ids that a response has disclosed
    pc,          \* per worker: "idle", or "insert" between validation and db.insert_event
    data,        \* per worker: the payload being ingested
    gen,         \* per worker: the request_id of data was generated by the handler
    last,        \* the response the latest step sent, with the request it answers
    dash         \* the polling dashboard: its watermark and the events it received

vars == <<proc, client, collection, indexed, store, seq, uuids, known, pc, data, gen, last,
          dash>>

----------------------------------------------------------------------------
(* Bounds of the model. *)

\* successful inserts, generated ids and the largest explicit limit are capped
MaxInserts == 2
MaxUuid == 2
MaxLimit == 1

Workers == {1, 2}

----------------------------------------------------------------------------
(* Input domains. *)

Keys == {"event_type", "author", "timestamp", "request_id"}

CallerIds == {"r1"}

\* variant: an id generator that repeats itself
UuidFixed(n) == "u1"

\* str(uuid.uuid4()): the n-th value generated, different from all before it
Uuid(n) == "u" \o ToString(n)

TsTexts == { <<10, "Z">>, <<12, "+01:00">>, <<10, "PST">> }

FullPayloads ==
    [event_type : {"push"}, author : {"alice"}, timestamp : TsTexts,
     request_id : CallerIds \cup {Uuid(n) : n \in 1..MaxUuid}]

Restrict(f, S) == [k \in S |-> f[k]]

Required == {"event_type", "author", "timestamp"}

\* every choice of values with the required keys present, and every set of
\* keys (the handler reads only the key set of a payload it rejects)
Payloads ==
    { Restrict(f, S) : f \in FullPayloads, S \in {K \in SUBSET Keys : Required \subseteq K} }
    \cup { Restrict([event_type |-> "push", author |-> "alice",
                     timestamp |-> <<10, "Z">>, request_id |-> "r1"], S) :
             S \in SUBSET Keys }

NoData == Restrict([request_id |-> "r1"], {})

HasId(payload) == "request_id" \in DOMAIN payload

Valid(payload) == Required \subseteq DOMAIN payload

----------------------------------------------------------------------------
(* Timestamp conversions. *)

\* variant: every designator other than an offset is read as UTC
ReplaceZLenient(text) ==
    <<text[1], IF text[2] \in {"", "+01:00"} THEN text[2] ELSE "+00:00">>

\* str.replace('Z', '+00:00') on the zone designator
ReplaceZ(text) == <<text[1], IF text[2] = "Z" THEN "+00:00" ELSE text[2]>>

\* offsets datetime.fromisoformat accepts, in hours east of UTC
Offsets == [x \in {"", "+00:00", "+01:00"} |-> IF x = "+01:00" THEN 1 ELSE 0]

\* datetime.fromisoformat raises ValueError on any other designator
IsoParses(text) == text[2] \in DOMAIN Offsets

\* the instant the driver stores for the parsed datetime: aware values are
\* converted to UTC, naive values are taken as UTC
FromIso(text) == text[1] - Offsets[text[2]]

\* datetime.isoformat() of the naive UTC datetime the driver reads back
IsoFormat(instant) == <<instant, "">>

----------------------------------------------------------------------------
(* The collection. *)

Range(s) == {s[i] : i \in 1..Len(s)}

CountId(coll, id) == Cardinality({i \in 1..Len(coll) : coll[i].request_id = id})

UniqueIds(coll) ==
    \A i, j \in 1..Len(coll) : coll[i].request_id = coll[j].request_id => i = j

\* dict.get(key, default)
Get(d, k, default) == IF k \in DOMAIN d THEN d[k] ELSE default

\* the document insert_event prepares; n numbers the insertion and stands for
\* both the ObjectId the driver assigns and the reading of datetime.now
Document(event_data, n) ==
    [ event_type  |-> Get(event_data, "event_type", "None"),
      author      |-> Get(event_data, "author", "None"),
      action      |-> Get(event_data, "action", ""),
      from_branch |-> Get(event_data, "from_branch", ""),
      to_branch   |-> Get(event_data, "to_branch", ""),
      branch      |-> Get(event_data, "branch", ""),
      timestamp   |-> FromIso(ReplaceZ(event_data["timestamp"])),
      request_id  |-> Get(event_data, "request_id", "None"),
      created_at  |-> n,
      oid         |-> n ]

\* variant: no uniqueness check on the write
DuplicateKeyOff(coll, doc) == FALSE

\* the unique index rejects a document whose request_id is already present
\* (DuplicateKeyError); the check and the write are one step of the store
DuplicateKey(coll, doc) ==
    indexed /\ \E i \in 1..Len(coll) : coll[i].request_id = doc.request_id

\* variant: the write replaces the stored document of the same request_id
\* (an upsert) instead of being refused
insert_one_upsert(coll, doc) ==
    IF DuplicateKey(coll, doc)
    THEN [i \in 1..Len(coll) |->
            IF coll[i].request_id = doc.request_id THEN doc ELSE coll[i]]
    ELSE Append(coll, doc)

\* variant: a collection capped at one document, where a write evicts the
\* document stored before
insert_one_capped(coll, doc) ==
    IF DuplicateKey(coll, doc) THEN coll ELSE <<doc>>

\* collection.insert_one(document): the collection afterwards
insert_one(coll, doc) ==
    IF DuplicateKey(coll, doc) THEN coll ELSE Append(coll, doc)

----------------------------------------------------------------------------
(* Responses: jsonify(body), code, kept with the request they answer. *)

Respond(kind, req, code, body) ==
    [kind |-> kind, req |-> req, code |-> code, body |-> body]

\* the dashboard before its first poll: no watermark, nothing received
NoDash == [mark |-> {}, seen |-> {}]

\* the latest step sent nothing
NoResponse == Respond("none", "none", 0, "none")

----------------------------------------------------------------------------
(* database.py : Database.__init__ / connect, run by "db = Database()". *)

\* variant: connect() without the create_index call
StartupNoIndex ==
    /\ proc = "booting"
    /\ client' = "MongoClient"
    /\ \/ /\ proc' = "crashed"
          /\ UNCHANGED collection
       \/ /\ proc' = "running"
          /\ collection' = "events"
    /\ last' = NoResponse
    /\ UNCHANGED <<indexed, store, seq, uuids, known, pc, data, gen, dash>>

\* a constructor that does not call connect()
StartupLazy ==
    /\ proc = "booting"
    /\ proc' = "running"
    /\ last' = NoResponse
    /\ UNCHANGED <<client, collection, indexed, store, seq, uuids, known, pc, data, gen, dash>>

\* connect() sets self.client, pings, sets self.collection, creates the index;
\* any exception leaves __init__ and the import of the module fails
Startup ==
    /\ proc = "booting"
    /\ client' = "MongoClient"
    /\ \/ /\ proc' = "crashed"            \* ping raises ConnectionFailure
          /\ UNCHANGED <<collection, indexed>>
       \/ /\ proc' = "crashed"            \* create_index raises
          /\ collection' = "events"
          /\ UNCHANGED indexed
       \/ /\ proc' = "running"
          /\ collection' = "events"
          /\ indexed' = TRUE
    /\ last' = NoResponse
    /\ UNCHANGED <<store, seq, uuids, known, pc, data, gen, dash>>

----------------------------------------------------------------------------
(* app.py : webhook. *)

required_fields == <<"event_type", "author", "timestamp">>

\* variant: validation stops at the first missing field
missing_fields_first(payload) ==
    LET all == SelectSeq(required_fields, LAMBDA field : field \notin DOMAIN payload)
    IN  IF all = << >> THEN << >> ELSE <<Head(all)>>

missing_fields(payload) ==
    SelectSeq(required_fields, LAMBDA field : field \notin DOMAIN payload)

Pending == {w \in Workers : pc[w] = "insert"}

\* request ids a caller can put in a payload: its own, or one a response gave it
SuppliedIds == CallerIds \cup known

Idle == {w \in Workers : pc[w] = "idle"}

\* lines 60-81: parse, validate, attach a request_id; the request goes to the
\* first free worker of the pool (the workers are interchangeable)
WebhookRecv(w, payload) ==
    /\ proc = "running"
    /\ w \in Idle /\ \A v \in Idle : w <= v
    /\ "request_id" \in DOMAIN payload => payload["request_id"] \in SuppliedIds
    /\ IF DOMAIN payload = {}
       THEN /\ last' = Respond("webhook", payload, 400, [error |-> <<"Empty payload">>])
            /\ UNCHANGED <<uuids, pc, data, gen>>
       ELSE IF missing_fields(payload) # << >>
       THEN /\ last' = Respond("webhook", payload, 400,
                               [error |-> <<"Missing fields">> \o missing_fields(payload)])
            /\ UNCHANGED <<uuids, pc, data, gen>>
       ELSE /\ \/ seq + Cardinality(Pending) < MaxInserts
               \/ /\ "request_id" \in DOMAIN payload
                  /\ CountId(store, payload["request_id"]) > 0
            /\ IF "request_id" \notin DOMAIN payload
               THEN /\ uuids < MaxUuid
                    /\ uuids' = uuids + 1
                    /\ data' = [data EXCEPT ![w] =
                                   [k \in DOMAIN payload \cup {"request_id"} |->
                                       IF k = "request_id" THEN Uuid(uuids + 1) ELSE payload[k]]]
                    /\ gen' = [gen EXCEPT ![w] = TRUE]
               ELSE /\ data' = [data EXCEPT ![w] = payload]
                    /\ gen' = [gen EXCEPT ![w] = FALSE]
                    /\ UNCHANGED uuids
            /\ pc' = [pc EXCEPT ![w] = "insert"]
            /\ last' = NoResponse
    /\ UNCHANGED <<proc, client, collection, indexed, store, seq, known, dash>>

\* lines 83-101 with database.py insert_event: prepare the document, insert_one, respond
WebhookInsert(w) ==
    /\ proc = "running"
    /\ pc[w] = "insert"
    /\ LET event_data == data[w]
           id == event_data["request_id"]
       IN  \/ /\ ~IsoParses(ReplaceZ(event_data["timestamp"]))      \* ValueError
              /\ last' = Respond("webhook", event_data, 500, [error |-> <<"ValueError">>])
              /\ UNCHANGED <<store, seq, known>>
           \/ /\ IsoParses(ReplaceZ(event_data["timestamp"]))        \* store unreachable
              /\ last' = Respond("webhook", event_data, 500, [error |-> <<"ConnectionFailure">>])
              /\ UNCHANGED <<store, seq, known>>
           \/ /\ IsoParses(ReplaceZ(event_data["timestamp"]))
              /\ DuplicateKey(store, Document(event_data, seq + 1)) \/ seq < MaxInserts
              /\ store' = insert_one(store, Document(event_data, seq + 1))
              /\ IF DuplicateKey(store, Document(event_data, seq + 1))
                 THEN /\ last' = Respond("webhook", event_data, 200,
                                         [status |-> "duplicate",
                                          message |-> "Event already exists (duplicate ignored)",
                                          request_id |-> id])
                      /\ UNCHANGED seq
                 ELSE /\ seq' = seq + 1
                      /\ last' = Respond("webhook", event_data, 201,
                                         [status |-> "success",
                                          message |-> "Event stored successfully",
                                          request_id |-> id])
              /\ known' = IF gen[w] THEN known \cup {id} ELSE known
    /\ pc' = [pc EXCEPT ![w] = "idle"]
    /\ data' = [data EXCEPT ![w] = NoData]
    /\ gen' = [gen EXCEPT ![w] = FALSE]
    /\ UNCHANGED <<proc, client, collection, indexed, uuids, dash>>

----------------------------------------------------------------------------
(* database.py : get_recent_events;  app.py : get_events. *)

DefaultLimit == 50

Abs(n) == IF n < 0 THEN -n ELSE n

Min(a, b) == IF a < b THEN a ELSE b

\* variant: the filter written with "$gte"
MatchesGte(doc, since) == \A t \in since : doc.timestamp >= t

\* the filter {"timestamp": {"$gt": since}}, or {} when since is None;
\* since is {} for None and {t} for the instant t
Matches(doc, since) == \A t \in since : doc.timestamp > t

Matching(coll, since) == {i \in 1..Len(coll) : Matches(coll[i], since)}

\* the orders of the documents at the indices idx that are non-increasing in
\* timestamp: a newest one first, then the others likewise
RECURSIVE Orders(_, _)
Orders(coll, idx) ==
    IF idx = {} THEN { << >> }
    ELSE UNION { { <<coll[i]>> \o rest : rest \in Orders(coll, idx \ {i}) } :
                 i \in { j \in idx : \A k \in idx : coll[j].timestamp >= coll[k].timestamp } }

\* variant: .sort("timestamp", ASCENDING)
SortedAsc(coll, since) ==
    { [k \in 1..Len(docs) |-> docs[Len(docs) + 1 - k]] :
        docs \in Orders(coll, Matching(coll, since)) }

\* .sort("timestamp", DESCENDING): every order of the matching documents that
\* is non-increasing in timestamp (the order among equal keys is not fixed)
SortedDesc(coll, since) == Orders(coll, Matching(coll, since))

\* variant: the cursor without .limit
LimitedOff(docs, limit) == docs

\* .limit(n): 0 means no limit, a negative n is taken as its absolute value
Limited(docs, limit) ==
    IF limit = 0 THEN docs ELSE SubSeq(docs, 1, Min(Len(docs), Abs(limit)))

\* lines 127-133: ObjectId and datetimes rendered as strings
Rendered(doc) ==
    [doc EXCEPT !.oid = ToString(doc.oid),
                !.timestamp = IsoFormat(doc.timestamp),
                !.created_at = IsoFormat(doc.created_at)]

get_recent_events(coll, limit, since) ==
    { [k \in 1..Len(Limited(docs, limit)) |-> Rendered(docs[k])] :
        docs \in SortedDesc(coll, since) }

\* variant: a since text with an unknown zone designator is read as UTC
ParseSinceLoose(since_param) == { text[1] : text \in since_param }

\* lines 122-128: a since parameter that does not parse is logged and dropped
ParseSince(since_param) ==
    { FromIso(ReplaceZ(text)) : text \in {x \in since_param : IsoParses(ReplaceZ(x))} }

LimitOf(limit_param) ==
    IF limit_param = {} THEN DefaultLimit ELSE CHOOSE n \in limit_param : TRUE

\* since_param and limit_param are {} when the query string omits them
GetEvents(since_param, limit_param) ==
    /\ proc = "running"
    /\ Idle # {}
    /\ LET req == [since |-> since_param, limit |-> limit_param]
       IN  \/ last' = Respond("events", req, 500, [error |-> <<"ConnectionFailure">>])
           \/ \E events \in get_recent_events(store, LimitOf(limit_param),
                                                ParseSince(since_param)) :
                 last' = Respond("events", req, 200,
                                 [status |-> "success", count |-> Len(events),
                                  events |-> events,
                                  server_time |-> <<seq, "+00:00">>])
    /\ UNCHANGED <<proc, client, collection, indexed, store, seq, uuids, known, pc, data, gen, dash>>

----------------------------------------------------------------------------
(* database.py : clear_all_events;  app.py : clear_events. *)

\* variant: delete_one in place of delete_many
ClearEventsOne ==
    /\ proc = "running"
    /\ Idle # {}
    /\ \/ /\ last' = Respond("clear", "clear", 500, [error |-> <<"ConnectionFailure">>])
          /\ UNCHANGED store
       \/ /\ store' = IF store = << >> THEN store ELSE Tail(store)
          /\ last' = Respond("clear", "clear", 200,
                             [status |-> "success", deleted_count |-> Min(1, Len(store))])
    /\ UNCHANGED <<proc, client, collection, indexed, seq, uuids, known, pc, data, gen, dash>>

\* variant: delete_many with a filter that matches no document
ClearEventsNoop ==
    /\ proc = "running"
    /\ Idle # {}
    /\ \/ last' = Respond("clear", "clear", 500, [error |-> <<"ConnectionFailure">>])
       \/ last' = Respond("clear", "clear", 200,
                          [status |-> "success", deleted_count |-> 0])
    /\ UNCHANGED <<proc, client, collection, indexed, store, seq, uuids, known, pc, data, gen, dash>>

ClearEvents ==
    /\ proc = "running"
    /\ Idle # {}
    /\ \/ /\ last' = Respond("clear", "clear", 500, [error |-> <<"ConnectionFailure">>])
          /\ UNCHANGED store
       \/ /\ store' = << >>                        \* delete_many({})
          /\ last' = Respond("clear", "clear", 200,
                             [status |-> "success", deleted_count |-> Len(store)])
    /\ UNCHANGED <<proc, client, collection, indexed, seq, uuids, known, pc, data, gen, dash>>

----------------------------------------------------------------------------
(* app.py : health_check. *)

\* the body of a health response reached without an exception; lines 189-193
HealthBody(db_status) == [status |-> "healthy", database |-> db_status]

\* the body sent from the except branch; lines 198-203
HealthFailed ==
    [status |-> "healthy", database |-> "connecting_or_failed",
     note |-> "App is running, database is slow/connecting"]

\* what the request did: whether it called db.connect(), and how the last
\* ping it sent ended ("none" when it sent none)
HealthReq(connect, ping) == [connect |-> connect, ping |-> ping]

\* a health check that reports a failed ping as 503
HealthCheckStrict ==
    /\ proc = "running"
    /\ Idle # {}
    /\ client # "None"
    /\ \/ last' = Respond("health", HealthReq(FALSE, "ok"), 200, HealthBody("connected"))
       \/ last' = Respond("health", HealthReq(FALSE, "failed"), 503, HealthFailed)
    /\ UNCHANGED <<proc, client, collection, indexed, store, seq, uuids, known, pc, data, gen, dash>>

HealthCheck ==
    /\ proc = "running"
    /\ Idle # {}
    /\ IF client = "None"
       THEN \* db.connect() is called again; lines 178-179
            /\ client' = "MongoClient"          \* database.py line 36, before the ping
            /\ \/ \* the ping of connect fails: ConnectionFailure reaches the except branch
                  /\ last' = Respond("health", HealthReq(TRUE, "failed"), 200, HealthFailed)
                  /\ UNCHANGED <<collection, indexed>>
               \/ \* create_index fails: the exception reaches the except branch
                  /\ collection' = "events"
                  /\ last' = Respond("health", HealthReq(TRUE, "ok"), 200, HealthFailed)
                  /\ UNCHANGED indexed
               \/ \* connect succeeds; the client is set, so line 183 pings (the
                  \* else of line 185, "initialization_failed", needs db.client
                  \* unset after connect returned, which connect never leaves)
                  /\ collection' = "events"
                  /\ indexed' = TRUE
                  /\ \/ last' = Respond("health", HealthReq(TRUE, "ok"), 200,
                                        HealthBody("connected"))
                     \/ last' = Respond("health", HealthReq(TRUE, "failed"), 200,
                                        HealthFailed)
       ELSE \* db.client.admin.command('ping'); lines 182-184
            /\ \/ last' = Respond("health", HealthReq(FALSE, "ok"), 200,
                                  HealthBody("connected"))
               \/ last' = Respond("health", HealthReq(FALSE, "failed"), 200, HealthFailed)
            /\ UNCHANGED <<client, collection, indexed>>
    /\ UNCHANGED <<proc, store, seq, uuids, known, pc, data, gen, dash>>

----------------------------------------------------------------------------------------------------------------------------------------
(* database.py : Database.close. *)

\* a close that forgets the client handle
CloseReset ==
    /\ proc = "running"
    /\ client # "None"
    /\ client' = "None"
    /\ last' = Respond("close", "close", 0, "none")
    /\ UNCHANGED <<proc, collection, indexed, store, seq, uuids, known, pc, data, gen, dash>>

\* self.client.close() when the handle is set; self.client is not assigned.
\* The step answers no request; last records that it ran.
Close ==
    /\ proc = "running"
    /\ client # "None"
    /\ last' = Respond("close", "close", 0, "none")
    /\ UNCHANGED <<proc, client, collection, indexed, store, seq, uuids, known, pc, data, gen, dash>>

----------------

SinceParams == {{}} \cup {{text} : text \in TsTexts \ {<<12, "+01:00">>}}

LimitParams == {{}} \cup {{n} : n \in -1..MaxLimit}

Init ==
    /\ proc = "booting"
    /\ client = "None"
    /\ collection = "None"
    /\ indexed = FALSE
    /\ store = << >>
    /\ seq = 0
    /\ uuids = 0
    /\ known = {}
    /\ pc = [w \in Workers |-> "idle"]
    /\ data = [w \in Workers |-> NoData]
    /\ gen = [w \in Workers |-> FALSE]
    /\ last = NoResponse
    /\ dash = NoDash

Next ==
    \/ Startup
    \/ \E w \in Workers, payload \in Payloads : WebhookRecv(w, payload)
    \/ \E w \in Workers : WebhookInsert(w)
    \/ GetEvents({}, {})              \* the dashboard's poll without parameters
    \/ ClearEvents
    \/ HealthCheck
    \/ Close

Spec == Init /\ [][Next]_vars

----------------------------------------------------------------------------
(* Two POST /webhook requests with the same request_id, both past validation *)
(* and each on its own worker, before either has called db.insert_event.     *)

RaceId == "r1"

RacePayloads == {p \in Payloads : Valid(p) /\ HasId(p) /\ p["request_id"] = RaceId}

\* what the collection may hold beforehand: nothing, or one event ingested
\* without a request_id
RaceStores ==
    {<< >>} \cup
    { <<Document(p, 1)>> :
        p \in {q \in Payloads : /\ Valid(q) /\ HasId(q)
                                /\ q["request_id"] = Uuid(1)
                                /\ IsoParses(ReplaceZ(q["timestamp"]))} }

InitRace ==
    /\ proc = "running"
    /\ client = "MongoClient"
    /\ collection = "events"
    /\ indexed = TRUE
    /\ store \in RaceStores
    /\ seq = Len(store)
    /\ uuids = Len(store)
    /\ known = {store[i].request_id : i \in 1..Len(store)}
    /\ pc = [w \in Workers |-> "insert"]
    /\ data \in [Workers -> RacePayloads]
    /\ gen = [w \in Workers |-> FALSE]
    /\ last = NoResponse
    /\ dash = NoDash

NextRace == \E w \in Workers : WebhookInsert(w)

SpecRace == InitRace /\ [][NextRace]_vars

----------------------------------------------------------------------------
(* Properties. *)

\* the response r does not report a failed connection to the store
StoreAnswered(r) == r.body # [error |-> <<"ConnectionFailure">>]

\* timestamp texts whose zone designator Python does not read
Unreadable(text) == text[2] \notin {"", "Z", "+00:00", "+01:00"}

\* C1: in every reachable state no two stored events have the same request_id.
C1_UniqueRequestIds == UniqueIds(store)

\* C1 witness: two events are stored and a further insert was refused as a duplicate.
C1_Witness ==
    /\ Len(store) = 2
    /\ last.kind = "webhook" /\ last.code = 200

\* C2 as stated: every POST /webhook whose payload has the required fields and
\* carries a stored request_id returns, whatever its other fields are, 200
\* "duplicate" with that request_id and leaves the collection as it was
\* (the store being reachable).
C2_Original ==
    [][ (/\ last'.kind = "webhook"
         /\ Valid(last'.req)
         /\ CountId(store, last'.req["request_id"]) > 0
         /\ StoreAnswered(last'))
        => (/\ last'.code = 200
            /\ last'.body.status = "duplicate"
            /\ last'.body.request_id = last'.req["request_id"]
            /\ store' = store) ]_vars

\* C2 amended: a POST /webhook whose payload carries a stored request_id never
\* changes the collection (one record with that id stays, as it was stored),
\* whatever the response; and when the payload has the required fields and a
\* readable timestamp and the store answers, the response is 200 "duplicate"
\* with that request_id.
C2_DuplicateIsNoOp ==
    [][ (/\ last'.kind = "webhook"
         /\ HasId(last'.req)
         /\ CountId(store, last'.req["request_id"]) > 0)
        => (/\ store' = store
            /\ CountId(store', last'.req["request_id"]) = 1
            /\ (Valid(last'.req) /\ ~Unreadable(last'.req["timestamp"])
                   /\ StoreAnswered(last'))
                 => (/\ last'.code = 200
                     /\ last'.body.status = "duplicate"
                     /\ last'.body.request_id = last'.req["request_id"])) ]_vars

\* C2 witness: a duplicate was answered for a payload whose timestamp differs
\* from the one stored under the same request_id.
C2_Witness ==
    /\ last.kind = "webhook" /\ last.code = 200
    /\ \E i \in 1..Len(store) :
         /\ store[i].request_id = last.req["request_id"]
         /\ store[i].timestamp # FromIso(ReplaceZ(last.req["timestamp"]))

----------------------------------------------------------------------------
(* GET /api/events with every choice of since and limit, on every content   *)
(* the collection can have after up to MaxDocs ingestions.                   *)

MaxDocs == 3

GoodPayloads ==
    {p \in Payloads : Valid(p) /\ HasId(p) /\ IsoParses(ReplaceZ(p["timestamp"]))}

QueryStores ==
    UNION { { [i \in 1..n |-> Document(ps[i], i)] :
                ps \in { qs \in [1..n -> GoodPayloads] :
                           \A i, j \in 1..n :
                              qs[i]["request_id"] = qs[j]["request_id"] => i = j } } :
            n \in 0..MaxDocs }

InitQuery ==
    /\ proc = "running"
    /\ client = "MongoClient"
    /\ collection = "events"
    /\ indexed = TRUE
    /\ store \in QueryStores
    /\ seq = Len(store)
    /\ uuids = MaxUuid
    /\ known = {Uuid(n) : n \in 1..MaxUuid}
    /\ pc = [w \in Workers |-> "idle"]
    /\ data = [w \in Workers |-> NoData]
    /\ gen = [w \in Workers |-> FALSE]
    /\ last = NoResponse
    /\ dash = NoDash

NextQuery ==
    \E since_param \in SinceParams, limit_param \in LimitParams :
        GetEvents(since_param, limit_param)

SpecQuery == InitQuery /\ [][NextQuery]_vars

----------------------------------------------------------------------------

\* C3: of two concurrent POST /webhook requests with the same, not yet stored
\* request_id, the one the store serves first is answered 201 and the other
\* 200, and one record with that id is stored; a request answered 500 (the
\* store unreachable, the timestamp unreadable) stores nothing and leaves the
\* insert to the other.
C3_RaceOneInserted ==
    [][ \A w \in Workers :
          (pc[w] = "insert" /\ pc'[w] = "idle") =>
            /\ CountId(store', RaceId) <= 1
            /\ last'.code \in {200, 201, 500}
            /\ last'.code = 500 => store' = store
            /\ last'.code = 201 => CountId(store, RaceId) = 0 /\ CountId(store', RaceId) = 1
            /\ last'.code = 200 => store' = store /\ CountId(store, RaceId) = 1
            /\ IF Pending = Workers
               THEN last'.code # 200                             \* served first
               ELSE /\ last.code = 201 => last'.code # 201       \* served second
                    /\ last.code = 500 => last'.code # 200 ]_vars

\* C3 witness: both requests are answered, the second with 200 after the
\* first got 201, and one record with the id is stored.
C3_Witness ==
    /\ Pending = {}
    /\ last.kind = "webhook" /\ last.code = 200
    /\ CountId(store, RaceId) = 1

\* C4 as stated: a payload that omits required fields is answered 400 with a
\* list of exactly the omitted required fields, and nothing is stored.
C4_Original ==
    [][ (last'.kind = "webhook" /\ ~Valid(last'.req))
        => (/\ last'.code = 400
            /\ Head(last'.body.error) = "Missing fields"
            /\ Range(Tail(last'.body.error)) = Required \ DOMAIN last'.req
            /\ Len(Tail(last'.body.error)) = Cardinality(Required \ DOMAIN last'.req)
            /\ store' = store) ]_vars

\* C4 amended: a payload with at least one key that omits required fields is
\* answered 400 with a list of exactly the omitted required fields; the empty
\* object is answered 400 "Empty payload" with no list; in both cases nothing
\* is stored and nothing is left to insert.
C4_MissingFieldsListed ==
    [][ (last'.kind = "webhook" /\ ~Valid(last'.req))
        => (/\ last'.code = 400
            /\ IF DOMAIN last'.req = {}
               THEN last'.body.error = <<"Empty payload">>
               ELSE /\ Head(last'.body.error) = "Missing fields"
                    /\ Range(Tail(last'.body.error)) = Required \ DOMAIN last'.req
                    /\ Len(Tail(last'.body.error)) = Cardinality(Required \ DOMAIN last'.req)
            /\ store' = store
            /\ pc' = pc) ]_vars

\* C4 witness: a payload with one required field was answered with the two
\* others listed, while events were stored.
C4_Witness ==
    /\ last.kind = "webhook" /\ last.code = 400
    /\ Cardinality(DOMAIN last.req \cap Required) = 1
    /\ Len(last.body.error) = 3
    /\ Len(store) > 0

\* C5: the request_id attached to a payload that has none is different from
\* every id stored, generated before, pending or known to a caller; the insert
\* of such a payload is never answered "duplicate", and is answered 201 with
\* one more record stored unless it fails with 500; so a 200 "duplicate"
\* answers only a payload that carried its request_id.
C5_GeneratedIdIsFresh ==
    [][ \A w \in Workers :
          /\ (pc[w] = "idle" /\ pc'[w] = "insert" /\ gen'[w]) =>
                LET id == data'[w]["request_id"]
                IN  /\ CountId(store, id) = 0
                    /\ id \notin {Uuid(n) : n \in 1..uuids}
                    /\ id \notin SuppliedIds
                    /\ \A v \in Pending : data[v]["request_id"] # id
          /\ (pc[w] = "insert" /\ pc'[w] = "idle" /\ gen[w]) =>
                /\ last'.code \in {201, 500}
                /\ last'.code = 201 =>
                      /\ Len(store') = Len(store) + 1
                      /\ store'[Len(store')].request_id = data[w]["request_id"]
          /\ (pc[w] = "insert" /\ pc'[w] = "idle" /\ last'.code = 200) =>
                ~gen[w] /\ CountId(store, data[w]["request_id"]) = 1 ]_vars

\* C5 witness: the same payload without request_id was ingested twice and two
\* records with different generated ids are stored.
C5_Witness ==
    /\ last.kind = "webhook" /\ last.code = 201
    /\ Len(store) = 2
    /\ store[1].request_id \notin CallerIds /\ store[2].request_id \notin CallerIds
    /\ store[1].request_id # store[2].request_id
    /\ store[1].timestamp = store[2].timestamp
    /\ store[1].author = store[2].author

\* the instants of a rendered result, in the order returned
Instants(events) == [k \in 1..Len(events) |-> FromIso(events[k].timestamp)]

C7_SinceIsExclusive ==
    (last.kind = "events" /\ last.code = 200) =>
        \A T \in { FromIso(<<x[1], IF x[2] = "Z" THEN "+00:00" ELSE x[2]>>) :
                      x \in {y \in last.req.since : ~Unreadable(y)} } :
          \A k \in 1..Len(last.body.events) :
            /\ FromIso(last.body.events[k].timestamp) > T
            /\ \E i \in 1..Len(store) : Rendered(store[i]) = last.body.events[k]

\* C7 witness: with an event at T and a newer one stored, the query with
\* since = T returned the newer one alone.
C7_Witness ==
    /\ last.kind = "events" /\ last.code = 200
    /\ last.req.since = {<<10, "Z">>} /\ last.req.limit = {}
    /\ \E i \in 1..Len(store) : store[i].timestamp = 10
    /\ Len(last.body.events) = 1

\* C8: GET /api/events is answered 200 also when the read of the store fails
\* (then with count 0 and no events), never 500.
C8_ReadFailureGivesEmpty ==
    last.kind = "events" =>
        /\ last.code = 200
        /\ last.body.status = "success"

\* C9: a payload with the required fields and a timestamp that cannot be
\* parsed is answered 500, and no record is added.
C9_BadTimestampFails ==
    [][ (/\ last'.kind = "webhook"
         /\ Valid(last'.req)
         /\ Unreadable(last'.req["timestamp"]))
        => (/\ last'.code = 500
            /\ "error" \in DOMAIN last'.body
            /\ store' = store) ]_vars

\* C9 witness: with an event stored, an ingestion failed on its timestamp.
C9_Witness ==
    /\ last.kind = "webhook" /\ last.code = 500
    /\ last.body = [error |-> <<"ValueError">>]
    /\ Len(store) > 0

\* C10: a clear reports as deleted_count the number of records stored just
\* before it and leaves none; the request that follows a clear directly gets
\* no events if it is a query and deleted_count 0 if it is a clear.
C10_ClearDeletesAll ==
    [][ /\ (last'.kind = "clear" /\ last'.code = 200) =>
              /\ last'.body.deleted_count = Len(store)
              /\ store' = << >>
        /\ (last.kind = "clear" /\ last.code = 200) =>
              /\ (last'.kind = "events" /\ last'.code = 200) =>
                    last'.body.events = << >> /\ last'.body.count = 0
              /\ (last'.kind = "clear" /\ last'.code = 200) =>
                    last'.body.deleted_count = 0 ]_vars

\* C10 witness: a clear deleted two records.
C10_Witness ==
    /\ last.kind = "clear" /\ last.code = 200
    /\ last.body.deleted_count = 2
    /\ store = << >>

----------------------------------------------------------------------------

\* C11: every answer of GET /health is 200 with status "healthy", whatever the
\* state of the connection to the store, and its database field is
\* "connected" only when a ping sent during that request succeeded.
C11_HealthAlwaysHealthy ==
    last.kind = "health" =>
        /\ last.code = 200
        /\ last.body.status = "healthy"
        /\ last.body.database = "connected" => last.req.ping = "ok"

\* C11 witness: a health check whose ping failed was answered 200 "healthy"
\* with a database field other than "connected".
C11_Witness ==
    /\ last.kind = "health"
    /\ last.req.ping = "failed"
    /\ last.code = 200
    /\ last.body.database = "connecting_or_failed"

\* C12: startup does not depend on the store: the process never ends while
\* the module is loaded, so that it goes on to serve GET / and GET /health
\* also when the store is unreachable or the connection string is missing.
C12_StartupCompletes == proc # "crashed"

\* C13: when the connection succeeded (the collection handle is set) and the
\* creation of the unique index on request_id failed, the process still comes
\* up, with an adapter that later inserts can use.
C13_IndexFailureIsNotFatal ==
    [][ (proc = "booting" /\ collection' = "events" /\ ~indexed')
        => proc' = "running" ]_vars

\* the adapter holds a client and its collection handle
Connected == client = "MongoClient" /\ collection = "events"

C15_BadSinceIsNoSince ==
    (last.kind = "events" /\ \E text \in last.req.since : Unreadable(text)) =>
        /\ StoreAnswered(last) => last.code = 200
        /\ last.code = 200 =>
             /\ last.body.events \in
                  get_recent_events(store, LimitOf(last.req.limit), {})
             /\ last.body.count = Len(last.body.events)

\* C15 witness: a query with the unparseable since <<10, "PST">> and no limit
\* returned all MaxDocs stored events, one with timestamp 10 among them.
C15_Witness ==
    /\ last.kind = "events" /\ last.code = 200
    /\ last.req.since = {<<10, "PST">>} /\ last.req.limit = {}
    /\ Len(store) = MaxDocs
    /\ Len(last.body.events) = MaxDocs
    /\ \E k \in 1..Len(last.body.events) : FromIso(last.body.events[k].timestamp) = 10

\* C16: a step changes the collection in one of two ways only: a POST /webhook
\* answered 201 appends one event and leaves the stored ones as they are, and
\* a POST /api/clear answered 200 removes all of them; every other step
\* leaves every stored event in place with its field values.
C16_StoredEventsAreFrozen ==
    [][ \/ store' = store
        \/ /\ last'.kind = "webhook" /\ last'.code = 201
           /\ Len(store') = Len(store) + 1
           /\ SubSeq(store', 1, Len(store)) = store
        \/ /\ last'.kind = "clear" /\ last'.code = 200
           /\ store' = << >> ]_vars

\* C16 witness: the second event ever stored is the only one in the
\* collection: the first was removed by a clear, not by the ingestion.
C16_Witness ==
    /\ Len(store) = 1
    /\ store[1].oid = 2
    /\ last.kind = "webhook" /\ last.code = 201

\* C17: the body of a 500 response does not depend on the exception behind
\* it: of two requests answered 500 one after the other, the second gets the
\* body the first got.
C17_ErrorBodiesAreGeneric ==
    [][ (last.code = 500 /\ last'.code = 500) => last'.body = last.body ]_vars

\* C19: whether a POST /webhook is answered 201 or 200 "duplicate" depends on
\* the events stored at that moment only: it is 201 exactly when no stored
\* event has the payload's request_id, and one record with that id is stored
\* afterwards; right after a successful POST /api/clear it is 201 and the
\* collection holds that one record, also for a request_id stored before the
\* clear.
C19_DedupForgetsClearedIds ==
    [][ (last'.kind = "webhook" /\ last'.code \in {200, 201})
        => (/\ last'.code = 201 <=> CountId(store, last'.req["request_id"]) = 0
            /\ CountId(store', last'.req["request_id"]) = 1
            /\ (last.kind = "clear" /\ last.code = 200)
                 => (last'.code = 201 /\ Len(store') = 1)) ]_vars

\* C19 witness: request_id "r1" was stored, cleared and ingested again: both
\* events ever stored carried the caller's id (no id was generated), and the
\* second of them is the only one stored, answered 201.
C19_Witness ==
    /\ uuids = 0 /\ seq = 2
    /\ Len(store) = 1
    /\ store[1].request_id = "r1" /\ store[1].oid = 2
    /\ last.kind = "webhook" /\ last.code = 201

\* C20: in every state of the running process the client handle of the
\* Database instance is set, also right after close(); so no GET /health
\* calls connect() again, and none reports "initialization_failed".
C20_ClientHandleStays ==
    /\ proc = "running" => client = "MongoClient"
    /\ last.kind = "health" =>
         /\ ~last.req.connect
         /\ last.body.database # "initialization_failed"

\* C20 witness: close() has just run in the serving process, with an event
\* stored, and the client handle is still set.
C20_Witness ==
    /\ proc = "running"
    /\ last.kind = "close"
    /\ client = "MongoClient"
    /\ Len(store) = 1

----------------------------------------------------------------------------
(* A dashboard that polls GET /api/events with the limit PollLimit and, as   *)
(* since, the greatest timestamp it has received (none before it received   *)
(* an event), while events are ingested and the collection is cleared.       *)

PollLimit == 1

\* the dashboard after an answer: the events are newest first and all newer
\* than the watermark, so the first one carries the greatest timestamp
\* received so far; it is sent back as the server rendered it
DashAfter(d, events) ==
    [mark |-> IF events = << >> THEN d.mark ELSE {events[1].timestamp},
     seen |-> d.seen \cup {events[k].oid : k \in 1..Len(events)}]

\* get_events for the request of the dashboard, and what the dashboard keeps
Poll ==
    /\ proc = "running"
    /\ Idle # {}
    /\ LET req == [since |-> dash.mark, limit |-> {PollLimit}]
       IN  \/ /\ last' = Respond("events", req, 500, [error |-> <<"ConnectionFailure">>])
              /\ UNCHANGED dash
           \/ \E events \in get_recent_events(store, LimitOf(req.limit),
                                                ParseSince(req.since)) :
                 /\ last' = Respond("events", req, 200,
                                    [status |-> "success", count |-> Len(events),
                                     events |-> events,
                                     server_time |-> <<seq, "+00:00">>])
                 /\ dash' = DashAfter(dash, events)
    /\ UNCHANGED <<proc, client, collection, indexed, store, seq, uuids, known, pc, data, gen>>

\* the polls that the store answers
PollOk == Poll /\ last'.code = 200

\* payloads that pass validation and whose timestamp can be read
PollPayloads == {p \in Payloads : Valid(p) /\ IsoParses(ReplaceZ(p["timestamp"]))}

InitPoll ==
    /\ proc = "running"
    /\ client = "MongoClient"
    /\ collection = "events"
    /\ indexed = TRUE
    /\ store = << >>
    /\ seq = 0
    /\ uuids = 0
    /\ known = {}
    /\ pc = [w \in Workers |-> "idle"]
    /\ data = [w \in Workers |-> NoData]
    /\ gen = [w \in Workers |-> FALSE]
    /\ last = NoResponse
    /\ dash = NoDash

NextPoll ==
    \/ \E w \in Workers, payload \in PollPayloads : WebhookRecv(w, payload)
    \/ \E w \in Workers : WebhookInsert(w)
    \/ ClearEvents
    \/ Poll

\* the dashboard polls on a timer and the store answers again and again; a
\* request that passed validation is carried on to its insert
SpecPoll ==
    /\ InitPoll
    /\ [][NextPoll]_vars
    /\ WF_vars(PollOk)
    /\ \A w \in Workers : WF_vars(WebhookInsert(w))

\* the stored events the watermark of the dashboard does not exclude
Above == {i \in 1..Len(store) : \A t \in ParseSince(dash.mark) : store[i].timestamp > t}

\* the stored events the dashboard has not received and that its watermark
\* excludes
Missed ==
    {i \in 1..Len(store) : /\ ToString(store[i].oid) \notin dash.seen
                           /\ \E t \in ParseSince(dash.mark) : store[i].timestamp <= t}

\* C18 as stated: every event that is stored and, from some moment on, never
\* cleared is eventually received by the polling dashboard.
C18_Original ==
    \A n \in 1..MaxInserts :
        (<>[](\E i \in 1..Len(store) : store[i].oid = n)) => <>(ToString(n) \in dash.seen)

\* C18 amended: an answered poll delivers the newest min(PollLimit, n) of the
\* n stored events whose timestamp is strictly greater than the watermark,
\* and nothing else; the dashboard keeps what it received; and no step
\* delivers a stored event that the watermark excludes (its timestamp is not
\* greater than the watermark), so such an event is not received.
C18_PollDeliversAboveWatermark ==
    [][ /\ dash.seen \subseteq dash'.seen
        /\ \A i \in Missed : ToString(store[i].oid) \notin dash'.seen
        /\ (last'.kind = "events" /\ last'.code = 200) =>
             LET events == last'.body.events
                 got    == {events[k] : k \in 1..Len(events)}
             IN  /\ Len(events) = Min(PollLimit, Cardinality(Above))
                 /\ Cardinality(got) = Len(events)
                 /\ got \subseteq {Rendered(store[i]) : i \in Above}
                 /\ \A i \in Above : \A k \in 1..Len(events) :
                       Rendered(store[i]) \notin got
                         => store[i].timestamp <= FromIso(events[k].timestamp)
                 /\ dash'.seen = dash.seen \cup {e.oid : e \in got} ]_vars

\* C18 witness: the dashboard holds a watermark, a stored event it has not
\* received has a timestamp not greater than the watermark, and the latest
\* poll was answered with no event.
C18_Witness ==
    /\ Missed # {}
    /\ last.kind = "events" /\ last.code = 200
    /\ last.req.since = dash.mark
    /\ last.body.count = 0

====
